---- MODULE Spec2Model ----
(***************************************************************************)
(* A model of the analytics engine of the Tech Intelligence Platform       *)
(* (src/backend/ml_engine.py): forecast_trends, cluster_documents and      *)
(* get_summary; and of its collaborators: generate_trend_data              *)
(* (data_generator.py), the cluster table (storage.py), the forecast       *)
(* cache and the startup pipeline (main.py, real_ingester.py).             *)
(*                                                                         *)
(* Numbers.  numpy floats are modelled in exact arithmetic.  A float held  *)
(* in pred_mean / lower_bound / upper_bound is stored as the integer       *)
(* floor(Scale * x) (fixed point); since Scale is a positive integer,      *)
(* floor(x) = floor(floor(Scale * x) / Scale), so int() of a stored value  *)
(* is exact.  growth_rate, which the code rounds to one decimal, is stored *)
(* in tenths of a percent.  A month "YYYY-MM" is the pair <<YYYY, MM>>;    *)
(* the string order of such months is the lexicographic order of pairs.    *)
(***************************************************************************)
EXTENDS Integers, Sequences, FiniteSets, TLC

VARIABLES
    \* ---- forecast_trends -------------------------------------------
    trends_df,        \* the input rows, in input order
    forecast_months,  \* the horizon
    pc,               \* position in forecast_trends
    todo,             \* topics groupby has still to yield
    topic,            \* the loop variable topic
    group,            \* the loop variable group (sorted rows of the topic)
    y,                \* group["mentions"].values
    pred_mean,        \* local pred_mean (fixed point), <<>> while unbound
    lower_bound,      \* local lower_bound
    upper_bound,      \* local upper_bound
    results,          \* the dict results: topic -> TopicForecast
    paths,            \* history: topic -> "primary" | "fallback"
    origin,           \* history: which path and topic assigned each of
                      \* pred_mean, lower_bound, upper_bound last
    \* ---- cluster_documents -----------------------------------------
    documents,        \* the input documents (their texts)
    n_clusters,       \* the argument, then min(n_clusters, len(texts))
    k_arg,            \* history: the argument n_clusters as passed
    cpc,              \* position in cluster_documents
    feature_names,    \* the fitted vocabulary
    labels_,          \* km.labels_
    clusters,         \* the list being built / returned
    \* ---- get_summary -----------------------------------------------
    forecast_results, \* the input mapping, as a list of items in dict order
    spc,              \* position in get_summary
    summary,          \* the returned dict
    \* ---- the collaborators (one record each, fields named as in the code)
    gen,              \* generate_trend_data
    store,            \* the table topic_clusters and its users
    server,           \* the forecast cache and the request handlers
    pipe              \* the startup pipeline followed by GET /api/summary

fvars == <<trends_df, forecast_months, pc, todo, topic, group, y,
           pred_mean, lower_bound, upper_bound, results, paths, origin>>
cvars == <<documents, n_clusters, k_arg, cpc, feature_names, labels_, clusters>>
svars == <<forecast_results, spc, summary>>
xvars == <<gen, store, server, pipe>>
vars == <<fvars, cvars, svars, xvars>>

\* a collaborator that is not running
Idle == [pc |-> "idle"]

\* a local that has not been assigned
Unbound == [path |-> "unbound", topic |-> ""]

\* origin while pred_mean, lower_bound and upper_bound are all unbound
\* (overwrote: the except block replaced a pred_mean that the try block of the
\* same topic had assigned)
NoOrigin ==
    [pred_mean |-> Unbound, lower_bound |-> Unbound, upper_bound |-> Unbound,
     overwrote |-> FALSE]

\* the empty dict
NoMap == [t \in {} |-> 0]

\* summary before get_summary has returned
NoSummary ==
    [total_topics |-> -1, total_mentions |-> -1,
     top_rising |-> <<>>, top_declining |-> <<>>]

-----------------------------------------------------------------------------
(* Bounds of the model *)

MaxLen == 3          \* short series have 1..MaxLen points
MaxHorizon == 2      \* forecast_months ranges over 1..MaxHorizon
Scale == 10          \* fixed-point resolution of the stored floats

(* Program constants *)

YearLag == 13        \* y[-13], the point 13 steps before the end
YearLen == 12        \* len(y) > 12
LastN == 3           \* y[-3:]
StdN == 6            \* y[-6:], len(y) >= 6

Vals == {0, 3, 50, 100}
\* the tracked technologies, in the (string) order groupby yields its keys
TopicOrder ==
    <<"5G Networks", "Artificial Intelligence", "Augmented Reality",
      "Blockchain", "Cybersecurity", "Digital Twins", "Edge Computing",
      "Green Tech", "Large Language Models", "Quantum Computing">>
BaseMonth == <<2023, 11>>

-----------------------------------------------------------------------------
(* Helpers *)

Range(s) == {s[i] : i \in 1..Len(s)}

Max(a, b) == IF a >= b THEN a ELSE b

Min(a, b) == IF a <= b THEN a ELSE b

Abs(a) == IF a >= 0 THEN a ELSE -a

RECURSIVE SumSeq(_)
SumSeq(s) == IF s = <<>> THEN 0 ELSE Head(s) + SumSeq(Tail(s))

\* s[-n:] of Python
LastSlice(s, n) == IF Len(s) <= n THEN s ELSE SubSeq(s, Len(s) - n + 1, Len(s))

\* s[:n] of Python
FirstSlice(s, n) == IF Len(s) <= n THEN s ELSE SubSeq(s, 1, n)

RECURSIVE SqrtSearch(_, _, _)
SqrtSearch(n, lo, hi) ==
    IF lo >= hi THEN lo
    ELSE LET mid == (lo + hi + 1) \div 2
         IN IF mid * mid <= n THEN SqrtSearch(n, mid, hi)
                               ELSE SqrtSearch(n, lo, mid - 1)

\* floor(sqrt(n))
ISqrt(n) == SqrtSearch(n, 0, Min(n, 46340))

\* ceil(sqrt(n))
CeilSqrt(n) == LET r == ISqrt(n) IN IF r * r = n THEN r ELSE r + 1

\* int(x) of a fixed-point value: truncation towards zero
IntOf(v) == IF v >= 0 THEN v \div Scale ELSE -((-v) \div Scale)

\* variant of Clamp0: the clamp left out
ClampNoop(arr) == arr

\* np.maximum(x, 0), elementwise
Clamp0(arr) == [i \in 1..Len(arr) |-> Max(arr[i], 0)]

-----------------------------------------------------------------------------
(* Months *)

MonthLess(m1, m2) == m1[1] < m2[1] \/ (m1[1] = m2[1] /\ m1[2] < m2[2])

\* pd.Timestamp(m + "-01") + pd.DateOffset(months=k), formatted "%Y-%m"
AddMonths(m, k) ==
    LET idx == m[1] * 12 + (m[2] - 1) + k
    IN <<idx \div 12, (idx % 12) + 1>>

-----------------------------------------------------------------------------
(* generate_trend_data: the month string of step m *)

BaseDate == <<2024, 1>>   \* base_date = datetime(2024, 1, 1), as <<year, month>>
DayStep == 30             \* timedelta(days=30 * m)

IsLeap(yr) == (yr % 4 = 0 /\ yr % 100 /= 0) \/ yr % 400 = 0

\* the number of days of calendar month ym
DaysInMonth(ym) ==
    IF ym[2] \in {4, 6, 9, 11} THEN 30
    ELSE IF ym[2] = 2 THEN (IF IsLeap(ym[1]) THEN 29 ELSE 28)
    ELSE 31

\* the calendar month of the day that lies d days after the first day of ym
RECURSIVE MonthAfterDays(_, _)
MonthAfterDays(ym, d) ==
    IF d < DaysInMonth(ym) THEN ym
    ELSE MonthAfterDays(AddMonths(ym, 1), d - DaysInMonth(ym))

\* (base_date + timedelta(days=30 * m)).strftime("%Y-%m")
MonthStr(m) == MonthAfterDays(BaseDate, DayStep * m)

-----------------------------------------------------------------------------
(* forecast_trends: the input rows *)

Reverse(s) == [i \in 1..Len(s) |-> s[Len(s) + 1 - i]]

\* the rows of one topic: consecutive months from BaseMonth on
Rows(t, s) ==
    [i \in 1..Len(s) |->
        [topic |-> t, month |-> AddMonths(BaseMonth, i - 1), mentions |-> s[i]]]

\* the rows of one topic as generate_trend_data dates them
GeneratedRows(t, s) ==
    [i \in 1..Len(s) |-> [topic |-> t, month |-> MonthStr(i - 1), mentions |-> s[i]]]

ShortSeries == UNION {[1..n -> Vals] : n \in 1..MaxLen}

\* series long enough for the year-over-year branch (13 and 14 points)
LongOf(len, a, b, c) ==
    [i \in 1..len |->
        IF i = 1 THEN a
        ELSE IF i = 2 THEN b
        ELSE IF i = len THEN c
        ELSE 50 + 5 * (i % 3)]

LongSeries ==
    {LongOf(len, a, b, c) : len \in {YearLag, YearLag + 1}, a \in Vals,
                            b \in Vals, c \in Vals}

\* the series of test scenario "13 months, 50 to 110 in steps of 5"
Scenario13 == [i \in 1..YearLag |-> 45 + 5 * i]

SeriesSet == ShortSeries \cup LongSeries \cup {Scenario13}

PairSeries == {s \in ShortSeries : Len(s) <= 2 /\ Range(s) \subseteq {0, 100}}

\* data frames of one topic (rows ascending or descending by month, or dated
\* by generate_trend_data, where a month repeats) and of two topics (the
\* later topic's rows first)
InputFrames ==
    {Rows(TopicOrder[1], s) : s \in SeriesSet}
    \cup {GeneratedRows(TopicOrder[1], s) : s \in {q \in ShortSeries : Len(q) >= 2}}
    \cup {Reverse(Rows(TopicOrder[1], s)) : s \in SeriesSet}
    \cup {Reverse(Rows(TopicOrder[2], <<3, 50>>)) \o Rows(TopicOrder[1], s) :
            s \in PairSeries}

-----------------------------------------------------------------------------
(* forecast_trends: pure parts *)

SelectTopic(df, t) == SelectSeq(df, LAMBDA r : r.topic = t)

\* insert row r after the rows whose month is <= r.month (stable)
RECURSIVE InsertByMonth(_, _)
InsertByMonth(sorted, r) ==
    IF sorted = <<>> THEN <<r>>
    ELSE IF MonthLess(r.month, Head(sorted).month)
         THEN <<r>> \o sorted
         ELSE <<Head(sorted)>> \o InsertByMonth(Tail(sorted), r)

\* variant of SortByMonth: the group is left in the order of the input rows
SortByMonthSkipped(rows) == rows

\* group.sort_values("month")
RECURSIVE SortByMonth(_)
SortByMonth(rows) ==
    IF rows = <<>> THEN <<>>
    ELSE InsertByMonth(SortByMonth(SubSeq(rows, 1, Len(rows) - 1)),
                       rows[Len(rows)])

\* the keys groupby("topic") yields, in sorted order
GroupKeys(df) ==
    SelectSeq(TopicOrder, LAMBDA t : \E i \in 1..Len(df) : df[i].topic = t)

Squares(s) == [i \in 1..Len(s) |-> s[i] * s[i]]

\* variant of StdWindow: np.std(y), always over the whole series
StdWindowWhole(s) == s

\* the window np.std is taken over: y[-6:] if len(y) >= 6 else y
StdWindow(s) == IF Len(s) >= StdN THEN LastSlice(s, StdN) ELSE s

\* m^2 * variance of window w (m = len(w)): m * sum(x^2) - sum(x)^2
SqDev(w) == Len(w) * SumSeq(Squares(w)) - SumSeq(w) * SumSeq(w)

\* floor(Scale * np.mean(y[-3:]))
FallbackMean(s) == (Scale * SumSeq(LastSlice(s, LastN))) \div Len(LastSlice(s, LastN))

\* floor(Scale * (mean + std)) and floor(Scale * (mean - std)):
\* mean = S/n, std = sqrt(Q)/m, so Scale*(mean +- std) = (A +- sqrt(B)) / D
FallbackA(s) == Scale * SumSeq(LastSlice(s, LastN)) * Len(StdWindow(s))

FallbackB(s) ==
    Scale * Scale * Len(LastSlice(s, LastN)) * Len(LastSlice(s, LastN))
        * SqDev(StdWindow(s))

FallbackD(s) == Len(LastSlice(s, LastN)) * Len(StdWindow(s))

\* variant of FallbackUpper: upper = mean - std
FallbackUpperMinus(s) == (FallbackA(s) - CeilSqrt(FallbackB(s))) \div FallbackD(s)

\* floor(Scale * (mean + std))
FallbackUpper(s) == (FallbackA(s) + ISqrt(FallbackB(s))) \div FallbackD(s)

FallbackLowerRaw(s) == (FallbackA(s) - CeilSqrt(FallbackB(s))) \div FallbackD(s)

\* round(num / den) to the nearest integer, ties to even (den > 0)
RoundHalfEven(num, den) ==
    LET q == num \div den
        r == num - q * den
    IN IF 2 * r < den THEN q
       ELSE IF 2 * r > den THEN q + 1
       ELSE IF q % 2 = 0 THEN q ELSE q + 1

\* round((last / anchor - 1) * 100, 1), in tenths of a percent
GrowthVs(last, anchor) == RoundHalfEven(1000 * (last - anchor), anchor)

\* variant of GrowthRate: always against the first point
GrowthRateWholeSeries(s) ==
    IF s[1] > 0 THEN GrowthVs(s[Len(s)], s[1]) ELSE 0

GrowthRate(s) ==
    IF Len(s) > YearLen /\ s[Len(s) - YearLag + 1] > 0
    THEN GrowthVs(s[Len(s)], s[Len(s) - YearLag + 1])
    ELSE IF s[1] > 0
         THEN GrowthVs(s[Len(s)], s[1])
         ELSE 0

Historical(g) ==
    [i \in 1..Len(g) |-> [month |-> g[i].month, mentions |-> g[i].mentions]]

\* variant of ForecastEntries: DateOffset(months=i), the first forecast month
\* is the last observed month
ForecastEntriesFromLast(g, h, pm, lo, hi) ==
    [i \in 1..h |->
        [month |-> AddMonths(g[Len(g)].month, i - 1),
         mentions |-> IntOf(pm[i]),
         lower_bound |-> IntOf(lo[i]),
         upper_bound |-> IntOf(hi[i])]]

\* last_date + pd.DateOffset(months=i + 1), i = 0 .. forecast_months - 1
ForecastEntries(g, h, pm, lo, hi) ==
    [i \in 1..h |->
        [month |-> AddMonths(g[Len(g)].month, i),
         mentions |-> IntOf(pm[i]),
         lower_bound |-> IntOf(lo[i]),
         upper_bound |-> IntOf(hi[i])]]

\* what the ARIMA fit may hand back for one month: (lower, mean, upper) of an
\* interval mean -+ z * se, in fixed point
ArimaVals == {-17, 26}

ArimaTriples ==
    {t \in ArimaVals \X ArimaVals \X ArimaVals : t[1] <= t[2] /\ t[2] <= t[3]}

\* the exceptions the fit can raise
ExcKinds == {"ValueError", "LinAlgError"}

\* variant of Catches: "except ValueError"
CatchesValueErrorOnly(kind) == kind = "ValueError"

\* "except Exception" catches each of them
Catches(kind) == kind \in ExcKinds

-----------------------------------------------------------------------------
(* forecast_trends: the state machine *)

\* forecast_trends(trends_df, forecast_months) has been entered
ForecastInit ==
    /\ trends_df \in InputFrames
    /\ forecast_months \in 1..MaxHorizon
    /\ pc = "loop"
    /\ todo = GroupKeys(trends_df)
    /\ topic = "" /\ group = <<>> /\ y = <<>>
    /\ pred_mean = <<>> /\ lower_bound = <<>> /\ upper_bound = <<>>
    /\ results = NoMap /\ paths = NoMap /\ origin = NoOrigin
    /\ documents = <<>> /\ n_clusters = 0 /\ k_arg = 0 /\ cpc = "idle"
    /\ feature_names = <<>> /\ labels_ = <<>> /\ clusters = <<>>
    /\ forecast_results = <<>> /\ spc = "idle" /\ summary = NoSummary
    /\ gen = Idle /\ store = Idle /\ server = Idle /\ pipe = Idle

\* for topic, group in groupby: sort the group by month, take its mentions
NextGroup ==
    /\ pc = "loop" /\ todo /= <<>>
    /\ topic' = Head(todo)
    /\ todo' = Tail(todo)
    \* sort_values("month") is not a stable sort: rows of one month come out
    \* in either order
    /\ group' \in {SortByMonth(SelectTopic(trends_df, Head(todo))),
                  SortByMonth(Reverse(SelectTopic(trends_df, Head(todo))))}
    /\ y' = [i \in 1..Len(group') |-> group'[i].mentions]
    /\ pc' = "try"
    /\ UNCHANGED <<trends_df, forecast_months, pred_mean, lower_bound,
                   upper_bound, results, paths, origin>>
    /\ UNCHANGED <<cvars, svars, xvars>>

\* the try block runs to its end
ArimaOk ==
    /\ pc = "try"
    /\ \E fc \in [1..forecast_months -> ArimaTriples] :
         /\ lower_bound' = Clamp0([i \in 1..forecast_months |-> fc[i][1]])
         /\ upper_bound' = Clamp0([i \in 1..forecast_months |-> fc[i][3]])
         /\ pred_mean' = Clamp0([i \in 1..forecast_months |-> fc[i][2]])
    /\ paths' = (topic :> "primary") @@ paths
    /\ origin' = [pred_mean |-> [path |-> "primary", topic |-> topic],
                  lower_bound |-> [path |-> "primary", topic |-> topic],
                  upper_bound |-> [path |-> "primary", topic |-> topic],
                  overwrote |-> FALSE]
    /\ pc' = "emit"
    /\ UNCHANGED <<trends_df, forecast_months, todo, topic, group, y, results>>
    /\ UNCHANGED <<cvars, svars, xvars>>

\* ARIMA(...), fit() or get_forecast() raises: nothing assigned yet
ArimaRaiseFit ==
    /\ pc = "try"
    /\ \E kind \in ExcKinds : pc' = IF Catches(kind) THEN "except" ELSE "raised"
    /\ UNCHANGED <<trends_df, forecast_months, todo, topic, group, y,
                   pred_mean, lower_bound, upper_bound, results, paths, origin>>
    /\ UNCHANGED <<cvars, svars, xvars>>

\* conf_int() raises: pred_mean already holds the raw predicted mean
ArimaRaiseConfInt ==
    /\ pc = "try"
    /\ \E kind \in ExcKinds : pc' = IF Catches(kind) THEN "except" ELSE "raised"
    /\ \E pm \in [1..forecast_months -> ArimaVals] : pred_mean' = pm
    /\ origin' = [origin EXCEPT !.pred_mean = [path |-> "primary", topic |-> topic]]
    /\ UNCHANGED <<trends_df, forecast_months, todo, topic, group, y,
                   lower_bound, upper_bound, results, paths>>
    /\ UNCHANGED <<cvars, svars, xvars>>

\* variant of Fallback: the except block assigns only lower_bound and
\* upper_bound when the try block has already assigned pred_mean
FallbackKeepsAssigned ==
    /\ pc = "except"
    /\ IF origin.pred_mean = [path |-> "primary", topic |-> topic]
       THEN UNCHANGED pred_mean
       ELSE pred_mean' = [i \in 1..forecast_months |-> FallbackMean(y)]
    /\ lower_bound' = Clamp0([i \in 1..forecast_months |-> FallbackLowerRaw(y)])
    /\ upper_bound' = [i \in 1..forecast_months |-> FallbackUpper(y)]
    /\ paths' = (topic :> "fallback") @@ paths
    /\ origin' = [pred_mean |-> IF origin.pred_mean = [path |-> "primary", topic |-> topic]
                                THEN origin.pred_mean
                                ELSE [path |-> "fallback", topic |-> topic],
                  lower_bound |-> [path |-> "fallback", topic |-> topic],
                  upper_bound |-> [path |-> "fallback", topic |-> topic],
                  overwrote |-> FALSE]
    /\ pc' = "emit"
    /\ UNCHANGED <<trends_df, forecast_months, todo, topic, group, y, results>>
    /\ UNCHANGED <<cvars, svars, xvars>>

\* the except block
Fallback ==
    /\ pc = "except"
    /\ pred_mean' = [i \in 1..forecast_months |-> FallbackMean(y)]
    /\ lower_bound' = Clamp0([i \in 1..forecast_months |-> FallbackLowerRaw(y)])
    /\ upper_bound' = [i \in 1..forecast_months |-> FallbackUpper(y)]
    /\ paths' = (topic :> "fallback") @@ paths
    /\ origin' = [pred_mean |-> [path |-> "fallback", topic |-> topic],
                  lower_bound |-> [path |-> "fallback", topic |-> topic],
                  upper_bound |-> [path |-> "fallback", topic |-> topic],
                  overwrote |-> origin.pred_mean = [path |-> "primary", topic |-> topic]]
    /\ pc' = "emit"
    /\ UNCHANGED <<trends_df, forecast_months, todo, topic, group, y, results>>
    /\ UNCHANGED <<cvars, svars, xvars>>

TopicForecast(g, s, h, pm, lo, hi) ==
    [historical |-> Historical(g),
     forecast |-> ForecastEntries(g, h, pm, lo, hi),
     growth_rate |-> GrowthRate(s)]

\* historical, forecast, growth_rate; results[topic] = {...}
Emit ==
    /\ pc = "emit"
    /\ results' = (topic :> TopicForecast(group, y, forecast_months, pred_mean,
                                          lower_bound, upper_bound)) @@ results
    /\ pc' = "loop"
    /\ UNCHANGED <<trends_df, forecast_months, todo, topic, group, y,
                   pred_mean, lower_bound, upper_bound, paths, origin>>
    /\ UNCHANGED <<cvars, svars, xvars>>

\* return results
ForecastReturn ==
    /\ pc = "loop" /\ todo = <<>>
    /\ pc' = "done"
    /\ UNCHANGED <<trends_df, forecast_months, todo, topic, group, y,
                   pred_mean, lower_bound, upper_bound, results, paths, origin>>
    /\ UNCHANGED <<cvars, svars, xvars>>

ForecastNext ==
    \/ NextGroup
    \/ ArimaOk
    \/ ArimaRaiseFit
    \/ ArimaRaiseConfInt
    \/ Fallback
    \/ Emit
    \/ ForecastReturn

-----------------------------------------------------------------------------
(* cluster_documents *)

MaxDocs == 3         \* document lists have 0..MaxDocs documents
MaxK == 2            \* the argument n_clusters ranges over 0..MaxK
TopKeywords == 6     \* order_centroids[i, :6]
LabelWords == 2      \* top_keywords[:2]

\* a text is the sequence of its words
Texts == {<<"the">>, <<"AI">>, <<"Quantum", "AI", "a">>}

DocLists == UNION {[1..n -> Texts] : n \in 0..MaxDocs}

\* str.lower() on the words of the model
Lower(w) ==
    CASE w = "AI" -> "ai"
      [] w = "Quantum" -> "quantum"
      [] OTHER -> w

\* str.title() on the (lower-case) keywords of the model
Title(w) ==
    CASE w = "ai" -> "Ai"
      [] w = "quantum" -> "Quantum"
      [] OTHER -> w

\* the analyzer of TfidfVectorizer(stop_words="english"): lower-case tokens
\* of two or more characters that are not stop words
StopWords == {"the"}
ShortWords == {"a"}
Tokens(text) ==
    {Lower(text[i]) : i \in 1..Len(text)} \ (StopWords \cup ShortWords)

\* all terms, in the (alphabetical) order of get_feature_names_out
TermOrder == <<"ai", "quantum">>

\* the fitted vocabulary (max_features=500 is never reached here)
Vocabulary(docs) ==
    SelectSeq(TermOrder, LAMBDA t : \E d \in 1..Len(docs) : t \in Tokens(docs[d]))

\* the orders a row of order_centroids can put the features in
Orderings(feats) ==
    {p \in [1..Len(feats) -> Range(feats)] :
        \A i, j \in 1..Len(feats) : i /= j => p[i] /= p[j]}

\* " & ".join(top_keywords[:2]).title()
LabelOf(keywords) ==
    LET top == FirstSlice(keywords, LabelWords)
    IN [i \in 1..(2 * Len(top) - 1) |->
           IF i % 2 = 1 THEN Title(top[(i + 1) \div 2]) ELSE " & "]

\* variant of MemberCount: ">=" for "=="
MemberCountAtLeast(labels, i) ==
    Cardinality({d \in DOMAIN labels : labels[d] >= i})

\* int(np.sum(km.labels_ == i))
MemberCount(labels, i) == Cardinality({d \in DOMAIN labels : labels[d] = i})

\* variant of NoDocuments: the early return left out
NoDocumentsNever(docs) == FALSE

\* not documents
NoDocuments(docs) == docs = <<>>

\* min(n_clusters, len(texts))
EffectiveK(k, texts) == Min(k, Len(texts))

\* range(n_clusters)
ClusterIds(k) == 0..(k - 1)

\* cluster_documents(documents, n_clusters) has been entered
ClusterInit ==
    /\ documents \in DocLists
    /\ n_clusters \in 0..MaxK
    /\ k_arg = n_clusters
    /\ cpc = "start"
    /\ feature_names = <<>> /\ labels_ = <<>> /\ clusters = <<>>
    /\ trends_df = <<>> /\ forecast_months = 0 /\ pc = "idle" /\ todo = <<>>
    /\ topic = "" /\ group = <<>> /\ y = <<>> /\ pred_mean = <<>>
    /\ lower_bound = <<>> /\ upper_bound = <<>> /\ results = NoMap
    /\ paths = NoMap /\ origin = NoOrigin
    /\ forecast_results = <<>> /\ spc = "idle" /\ summary = NoSummary
    /\ gen = Idle /\ store = Idle /\ server = Idle /\ pipe = Idle

\* if not documents: return []
ReturnEmpty ==
    /\ cpc = "start" /\ NoDocuments(documents)
    /\ clusters' = <<>>
    /\ cpc' = "done"
    /\ UNCHANGED <<documents, n_clusters, k_arg, feature_names, labels_>>
    /\ UNCHANGED <<fvars, svars, xvars>>

\* vectorizer.fit_transform(texts): ValueError on an empty vocabulary
Vectorize ==
    /\ cpc = "start" /\ ~NoDocuments(documents)
    /\ IF Vocabulary(documents) = <<>>
       THEN cpc' = "raised" /\ UNCHANGED feature_names
       ELSE cpc' = "kmeans" /\ feature_names' = Vocabulary(documents)
    /\ UNCHANGED <<documents, n_clusters, k_arg, labels_, clusters>>
    /\ UNCHANGED <<fvars, svars, xvars>>

\* n_clusters = min(...); KMeans(n_clusters).fit: every document gets one of
\* the labels 0..n_clusters-1 (fewer than one cluster is rejected)
KMeansFit ==
    /\ cpc = "kmeans"
    /\ n_clusters' = EffectiveK(n_clusters, documents)
    /\ IF n_clusters' < 1
       THEN cpc' = "raised" /\ UNCHANGED labels_
       ELSE /\ cpc' = "extract"
            /\ labels_' \in [1..Len(documents) -> 0..(n_clusters' - 1)]
    /\ clusters' = <<>>
    /\ UNCHANGED <<documents, k_arg, feature_names>>
    /\ UNCHANGED <<fvars, svars, xvars>>

\* one round of "for i in range(n_clusters)"
ExtractCluster ==
    /\ cpc = "extract"
    /\ Len(clusters) \in ClusterIds(n_clusters)
    /\ \E order \in Orderings(feature_names) :
         LET i == Len(clusters)
             top_keywords == FirstSlice(order, TopKeywords)
         IN clusters' = Append(clusters,
                [cluster_id |-> i,
                 label |-> LabelOf(top_keywords),
                 keywords |-> top_keywords,
                 size |-> MemberCount(labels_, i)])
    /\ UNCHANGED <<documents, n_clusters, k_arg, cpc, feature_names, labels_>>
    /\ UNCHANGED <<fvars, svars, xvars>>

\* return clusters
ClusterReturn ==
    /\ cpc = "extract"
    /\ Len(clusters) \notin ClusterIds(n_clusters)
    /\ cpc' = "done"
    /\ UNCHANGED <<documents, n_clusters, k_arg, feature_names, labels_, clusters>>
    /\ UNCHANGED <<fvars, svars, xvars>>

ClusterNext ==
    \/ ReturnEmpty
    \/ Vectorize
    \/ KMeansFit
    \/ ExtractCluster
    \/ ClusterReturn

-----------------------------------------------------------------------------
(* get_summary *)

MaxTopics == 6       \* forecast mappings have 0..MaxTopics topics
TopN == 3            \* sorted_topics[:3], sorted_topics[-3:]

\* what one topic of an input mapping may hold: its growth rate (tenths of a
\* percent) and its historical mentions
TopicChoices ==
    {<<-125, <<5>>>>, <<0, <<3, 4>>>>, <<300, <<0>>>>, <<300, <<7, 1>>>>}

\* a TopicForecast as forecast_trends builds it, with one forecast entry
ForecastOf(choice) ==
    [historical |-> Historical(Rows("", choice[2])),
     forecast |-> <<[month |-> AddMonths(BaseMonth, Len(choice[2])),
                     mentions |-> 9, lower_bound |-> 8, upper_bound |-> 11]>>,
     growth_rate |-> choice[1]]

\* the mapping of the first Len(c) topics with the choices c, as the list of
\* its items in dict (insertion) order
MappingOf(c) ==
    [i \in 1..Len(c) |-> [topic |-> TopicOrder[i], value |-> ForecastOf(c[i])]]

\* {t: v["growth_rate"] for t, v in forecast_results.items()}.items()
GrowthItems(items) ==
    [i \in 1..Len(items) |->
        [topic |-> items[i].topic, growth_rate |-> items[i].value.growth_rate]]

\* variant of InsertDesc: ascending order (reverse=True left out)
RECURSIVE InsertAsc(_, _)
InsertAsc(sorted, x) ==
    IF sorted = <<>> THEN <<x>>
    ELSE IF x.growth_rate < Head(sorted).growth_rate
         THEN <<x>> \o sorted
         ELSE <<Head(sorted)>> \o InsertAsc(Tail(sorted), x)

\* insert x after the entries whose growth rate is >= x's (stable, descending)
RECURSIVE InsertDesc(_, _)
InsertDesc(sorted, x) ==
    IF sorted = <<>> THEN <<x>>
    ELSE IF x.growth_rate > Head(sorted).growth_rate
         THEN <<x>> \o sorted
         ELSE <<Head(sorted)>> \o InsertDesc(Tail(sorted), x)

\* variant of SortedDesc: the items left in dict order
SortedNone(items) == items

\* sorted(..., key=lambda x: x[1], reverse=True)
RECURSIVE SortedDesc(_)
SortedDesc(items) ==
    IF items = <<>> THEN <<>>
    ELSE InsertDesc(SortedDesc(SubSeq(items, 1, Len(items) - 1)),
                    items[Len(items)])

\* variant of HistoricalSum: the forecast entries summed as well
HistoricalPlusForecast(v) ==
    SumSeq([i \in 1..Len(v.historical) |-> v.historical[i].mentions])
        + SumSeq([i \in 1..Len(v.forecast) |-> v.forecast[i].mentions])

\* sum(p["mentions"] for p in v["historical"])
HistoricalSum(v) ==
    SumSeq([i \in 1..Len(v.historical) |-> v.historical[i].mentions])

\* sum(... for v in forecast_results.values())
TotalMentions(items) ==
    SumSeq([i \in 1..Len(items) |-> HistoricalSum(items[i].value)])

\* variant of TopRising: one entry too many
TopRisingFour(sorted_topics) == FirstSlice(sorted_topics, TopN + 1)

TopRising(sorted_topics) == FirstSlice(sorted_topics, TopN)

\* variant of TopDeclining: sorted_topics[-4:]
TopDecliningFour(sorted_topics) == LastSlice(sorted_topics, TopN + 1)

\* sorted_topics[-3:]
TopDeclining(sorted_topics) == LastSlice(sorted_topics, TopN)

GetSummary(items) ==
    LET sorted_topics == SortedDesc(GrowthItems(items))
    IN [total_topics |-> Len(items),
        total_mentions |-> TotalMentions(items),
        top_rising |-> TopRising(sorted_topics),
        top_declining |-> TopDeclining(sorted_topics)]

\* get_summary(forecast_results) has been entered
SummaryInit ==
    /\ \E n \in 0..MaxTopics :
         \E c \in [1..n -> TopicChoices] : forecast_results = MappingOf(c)
    /\ spc = "start"
    /\ summary = NoSummary
    /\ trends_df = <<>> /\ forecast_months = 0 /\ pc = "idle" /\ todo = <<>>
    /\ topic = "" /\ group = <<>> /\ y = <<>> /\ pred_mean = <<>>
    /\ lower_bound = <<>> /\ upper_bound = <<>> /\ results = NoMap
    /\ paths = NoMap /\ origin = NoOrigin
    /\ documents = <<>> /\ n_clusters = 0 /\ k_arg = 0 /\ cpc = "idle"
    /\ feature_names = <<>> /\ labels_ = <<>> /\ clusters = <<>>
    /\ gen = Idle /\ store = Idle /\ server = Idle /\ pipe = Idle

\* the body of get_summary
Summarize ==
    /\ spc = "start"
    /\ summary' = GetSummary(forecast_results)
    /\ spc' = "done"
    /\ UNCHANGED <<forecast_results, fvars, cvars, xvars>>

SummaryNext == Summarize

-----------------------------------------------------------------------------
(* generate_trend_data *)

MaxMonths == 3       \* the argument months is 1..MaxMonths

\* TECHNOLOGIES, in the order of the list
TECHNOLOGIES ==
    <<"Artificial Intelligence", "Blockchain", "Quantum Computing",
      "Edge Computing", "Cybersecurity", "5G Networks", "Augmented Reality",
      "Digital Twins", "Green Tech", "Large Language Models">>

MinMentions == 5     \* max(int(trend_value + noise), 5)

\* the mention counts the seeded random draws are taken to give: the floor
\* and one value above it; all rows of a technology share the level
MentionLevels == {MinMentions, 120}

\* the records one pass of the outer loop appends for tech
TechRecords(tech, months, level) ==
    [i \in 1..months |->
        [topic |-> tech, month |-> MonthStr(i - 1), mentions |-> Max(level, MinMentions)]]

GenerateInit ==
    /\ gen \in {[pc |-> "loop", months |-> n, todo |-> TECHNOLOGIES, records |-> <<>>] :
                  n \in 1..MaxMonths}
    /\ store = Idle /\ server = Idle /\ pipe = Idle
    /\ trends_df = <<>> /\ forecast_months = 0 /\ pc = "idle" /\ todo = <<>>
    /\ topic = "" /\ group = <<>> /\ y = <<>> /\ pred_mean = <<>>
    /\ lower_bound = <<>> /\ upper_bound = <<>> /\ results = NoMap
    /\ paths = NoMap /\ origin = NoOrigin
    /\ documents = <<>> /\ n_clusters = 0 /\ k_arg = 0 /\ cpc = "idle"
    /\ feature_names = <<>> /\ labels_ = <<>> /\ clusters = <<>>
    /\ forecast_results = <<>> /\ spc = "idle" /\ summary = NoSummary

\* for tech in TECHNOLOGIES: for m in range(months): records.append(...)
GenTech ==
    /\ gen.pc = "loop" /\ gen.todo /= <<>>
    /\ \E level \in MentionLevels :
         gen' = [gen EXCEPT !.todo = Tail(gen.todo),
                            !.records = gen.records
                                \o TechRecords(Head(gen.todo), gen.months, level)]
    /\ UNCHANGED <<store, server, pipe>>
    /\ UNCHANGED <<fvars, cvars, svars>>

\* return pd.DataFrame(records)
GenReturn ==
    /\ gen.pc = "loop" /\ gen.todo = <<>>
    /\ gen' = [gen EXCEPT !.pc = "done"]
    /\ UNCHANGED <<store, server, pipe>>
    /\ UNCHANGED <<fvars, cvars, svars>>

GenerateNext ==
    \/ GenTech
    \/ GenReturn

-----------------------------------------------------------------------------
(* storage.py: the table topic_clusters, save_clusters, load_clusters *)

MaxRuns == 2         \* startup pipeline runs against one database
MaxClusters == 2     \* clusters in a saved list

KeywordLists == {<<"ai">>, <<"quantum", "ai">>}

\* cluster lists as cluster_documents returns them: cluster_id 0, 1, ...
ClusterListOf(kws) ==
    [i \in 1..Len(kws) |->
        [cluster_id |-> i - 1, label |-> LabelOf(kws[i]), keywords |-> kws[i],
         size |-> i]]

\* json.dumps of a list of strings, as the sequence of its tokens
RECURSIVE JsonItems(_)
JsonItems(list) ==
    IF list = <<>> THEN <<>>
    ELSE IF Len(list) = 1 THEN <<[kind |-> "string", str |-> list[1]]>>
    ELSE <<[kind |-> "string", str |-> Head(list)], [kind |-> ",", str |-> ""]>>
             \o JsonItems(Tail(list))

JsonDumps(list) ==
    <<[kind |-> "[", str |-> ""]>> \o JsonItems(list) \o <<[kind |-> "]", str |-> ""]>>

\* json.loads of such a text: the strings between the brackets and commas
JsonLoads(text) ==
    LET inner == SubSeq(text, 2, Len(text) - 1)
        items == SelectSeq(inner, LAMBDA tok : tok.kind = "string")
    IN  [i \in 1..Len(items) |-> items[i].str]

\* the row INSERT stores for cluster c under rowid id
RowOf(id, c) ==
    [id |-> id, cluster_id |-> c.cluster_id, label |-> c.label,
     keywords |-> JsonDumps(c.keywords), size |-> c.size]

\* the rows of a table in rowid order (the order of the table scan)
RECURSIVE RowidOrder(_)
RowidOrder(rows) ==
    IF rows = {} THEN <<>>
    ELSE LET first == CHOOSE r \in rows : \A o \in rows : r.id <= o.id
         IN  <<first>> \o RowidOrder(rows \ {first})

\* what load_clusters builds from the fetched rows
FetchedClusters(rows) ==
    [i \in 1..Len(rows) |->
        [cluster_id |-> rows[i].cluster_id, label |-> rows[i].label,
         keywords |-> JsonLoads(rows[i].keywords), size |-> rows[i].size]]

\* the database file does not exist yet; nothing saved, nothing loaded
StorageInit ==
    /\ store = [pc |-> "stopped", runs |-> 0, has_table |-> FALSE, table |-> {},
                seq |-> 0, txn |-> {}, pending |-> <<>>, arg |-> <<>>,
                saved |-> <<>>, loaded |-> <<>>, loaded_run |-> 0]
    /\ gen = Idle /\ server = Idle /\ pipe = Idle
    /\ trends_df = <<>> /\ forecast_months = 0 /\ pc = "idle" /\ todo = <<>>
    /\ topic = "" /\ group = <<>> /\ y = <<>> /\ pred_mean = <<>>
    /\ lower_bound = <<>> /\ upper_bound = <<>> /\ results = NoMap
    /\ paths = NoMap /\ origin = NoOrigin
    /\ documents = <<>> /\ n_clusters = 0 /\ k_arg = 0 /\ cpc = "idle"
    /\ feature_names = <<>> /\ labels_ = <<>> /\ clusters = <<>>
    /\ forecast_results = <<>> /\ spc = "idle" /\ summary = NoSummary

\* startup_pipeline begins: init_db(), CREATE TABLE IF NOT EXISTS
InitDb ==
    /\ store.pc \in {"stopped", "serving"}
    /\ store.runs < MaxRuns
    /\ store' = [store EXCEPT !.pc = "pipeline", !.runs = store.runs + 1,
                              !.has_table = TRUE]
    /\ UNCHANGED <<gen, server, pipe>>
    /\ UNCHANGED <<fvars, cvars, svars>>

\* variant of SaveClustersDelete: the DELETE left out
SaveClustersKeepsRows ==
    /\ store.pc = "pipeline"
    /\ \E n \in 0..MaxClusters : \E kws \in [1..n -> KeywordLists] :
         store' = [store EXCEPT !.pc = "inserting", !.txn = store.table,
                                !.arg = ClusterListOf(kws),
                                !.pending = ClusterListOf(kws)]
    /\ UNCHANGED <<gen, server, pipe>>
    /\ UNCHANGED <<fvars, cvars, svars>>

\* save_clusters(clusters): DELETE FROM topic_clusters, inside the
\* transaction the sqlite3 connection opens
SaveClustersDelete ==
    /\ store.pc = "pipeline"
    /\ \E n \in 0..MaxClusters : \E kws \in [1..n -> KeywordLists] :
         store' = [store EXCEPT !.pc = "inserting", !.txn = {},
                                !.arg = ClusterListOf(kws),
                                !.pending = ClusterListOf(kws)]
    /\ UNCHANGED <<gen, server, pipe>>
    /\ UNCHANGED <<fvars, cvars, svars>>

\* for c in clusters: INSERT; AUTOINCREMENT gives the next rowid never used
SaveClustersInsert ==
    /\ store.pc = "inserting" /\ store.pending /= <<>>
    /\ store' = [store EXCEPT !.txn = store.txn
                                  \cup {RowOf(store.seq + 1, Head(store.pending))},
                              !.seq = store.seq + 1,
                              !.pending = Tail(store.pending)]
    /\ UNCHANGED <<gen, server, pipe>>
    /\ UNCHANGED <<fvars, cvars, svars>>

\* conn.commit(); the pipeline is complete and the server takes requests
SaveClustersCommit ==
    /\ store.pc = "inserting" /\ store.pending = <<>>
    /\ store' = [store EXCEPT !.pc = "serving", !.table = store.txn,
                              !.saved = store.arg]
    /\ UNCHANGED <<gen, server, pipe>>
    /\ UNCHANGED <<fvars, cvars, svars>>

\* load_clusters(): SELECT ... FROM topic_clusters, rows in rowid order
LoadClusters ==
    /\ store.pc = "serving"
    /\ store' = [store EXCEPT !.loaded = FetchedClusters(RowidOrder(store.table)),
                              !.loaded_run = store.runs]
    /\ UNCHANGED <<gen, server, pipe>>
    /\ UNCHANGED <<fvars, cvars, svars>>

StorageNext ==
    \/ InitDb
    \/ SaveClustersDelete
    \/ SaveClustersInsert
    \/ SaveClustersCommit
    \/ LoadClusters

-----------------------------------------------------------------------------
(* main.py: _forecast_cache, _get_forecasts and the endpoints that call it *)

MaxThreads == 2      \* threads of the pool that runs the def endpoints
MaxRequests == 3     \* requests received in one server process

Threads == 1..MaxThreads

\* _forecast_cache: dict | None = None; a computed mapping is known by the
\* number of the forecast_trends call that built it
NoCache == [call |-> 0]

Endpoints == {"/api/trends", "/api/summary"}

ServerInit ==
    /\ server = [cache |-> NoCache, calls |-> 0, replaced |-> FALSE,
                 received |-> 0, responses |-> {},
                 threads |-> [t \in Threads |->
                                [pc |-> "idle", endpoint |-> "", computed |-> NoCache]]]
    /\ gen = Idle /\ store = Idle /\ pipe = Idle
    /\ trends_df = <<>> /\ forecast_months = 0 /\ pc = "idle" /\ todo = <<>>
    /\ topic = "" /\ group = <<>> /\ y = <<>> /\ pred_mean = <<>>
    /\ lower_bound = <<>> /\ upper_bound = <<>> /\ results = NoMap
    /\ paths = NoMap /\ origin = NoOrigin
    /\ documents = <<>> /\ n_clusters = 0 /\ k_arg = 0 /\ cpc = "idle"
    /\ feature_names = <<>> /\ labels_ = <<>> /\ clusters = <<>>
    /\ forecast_results = <<>> /\ spc = "idle" /\ summary = NoSummary

\* a request for get_trends or get_summary_endpoint is handed to a free thread
Receive(t) ==
    /\ server.threads[t].pc = "idle"
    /\ server.received < MaxRequests
    /\ \E e \in Endpoints :
         server' = [server EXCEPT !.received = server.received + 1,
                                  !.threads[t].pc = "check",
                                  !.threads[t].endpoint = e]
    /\ UNCHANGED <<gen, store, pipe>>
    /\ UNCHANGED <<fvars, cvars, svars>>

\* if _forecast_cache is None:
CheckCache(t) ==
    /\ server.threads[t].pc = "check"
    /\ server' = [server EXCEPT !.threads[t].pc =
                      IF server.cache = NoCache THEN "compute" ELSE "return"]
    /\ UNCHANGED <<gen, store, pipe>>
    /\ UNCHANGED <<fvars, cvars, svars>>

\* load_trends(); pd.DataFrame(trends); forecast_trends(df, forecast_months=6)
ComputeForecasts(t) ==
    /\ server.threads[t].pc = "compute"
    /\ server' = [server EXCEPT !.calls = server.calls + 1,
                                !.threads[t].computed = [call |-> server.calls + 1],
                                !.threads[t].pc = "assign"]
    /\ UNCHANGED <<gen, store, pipe>>
    /\ UNCHANGED <<fvars, cvars, svars>>

\* _forecast_cache = <the mapping just computed>
AssignCache(t) ==
    /\ server.threads[t].pc = "assign"
    /\ server' = [server EXCEPT !.cache = server.threads[t].computed,
                                !.replaced = server.replaced \/ server.cache /= NoCache,
                                !.threads[t].pc = "return"]
    /\ UNCHANGED <<gen, store, pipe>>
    /\ UNCHANGED <<fvars, cvars, svars>>

\* return _forecast_cache; the endpoint answers from it
Respond(t) ==
    /\ server.threads[t].pc = "return"
    /\ server' = [server EXCEPT !.responses = server.responses
                                    \cup {[endpoint |-> server.threads[t].endpoint,
                                           forecasts |-> server.cache]},
                                !.threads[t].pc = "idle"]
    /\ UNCHANGED <<gen, store, pipe>>
    /\ UNCHANGED <<fvars, cvars, svars>>

ServerNext ==
    \/ \E t \in Threads : Receive(t)
    \/ \E t \in Threads : CheckCache(t)
    \/ \E t \in Threads : ComputeForecasts(t)
    \/ \E t \in Threads : AssignCache(t)
    \/ \E t \in Threads : Respond(t)

-----------------------------------------------------------------------------
(* main.py: startup_pipeline (the trend source) and GET /api/summary *)

MaxItems == 2        \* monthly items in one Wikipedia response
SyntheticMonths == 24   \* generate_trend_data(months=24)

\* the monthly view count of an article (one level per pipeline run)
Views == {4070, 123456}

\* the month of the first item of a response
FirstItemMonth == <<2024, 11>>

\* what one request can come to: a 200 response with items, a 200 response
\* without items, another status code, an exception of requests.get
FetchOutcomes == {"items", "no_items", "http_error", "exception"}

\* the records appended for a 200 response: mentions = item["views"] // 100
WikiRecords(tech, views) ==
    [i \in 1..MaxItems |->
        [topic |-> tech, month |-> AddMonths(FirstItemMonth, i - 1),
         mentions |-> views \div 100]]

\* generate_trend_data(months): the records of all technologies
RECURSIVE SyntheticRecords(_, _, _)
SyntheticRecords(techs, months, level) ==
    IF techs = <<>> THEN <<>>
    ELSE TechRecords(Head(techs), months, level)
             \o SyntheticRecords(Tail(techs), months, level)

\* forecast_trends(df) as far as get_summary reads it: per topic, in groupby
\* order, the historical echo and the growth rate (the forecast entries,
\* which get_summary does not read, are left out)
SummaryInput(df) ==
    LET keys == GroupKeys(df)
    IN  [i \in 1..Len(keys) |->
            LET g == SortByMonth(SelectTopic(df, keys[i]))
            IN  [topic |-> keys[i],
                 value |-> [historical |-> Historical(g),
                            growth_rate |-> GrowthRate([j \in 1..Len(g) |-> g[j].mentions])]]]

PipelineInit ==
    /\ pipe \in {[pc |-> "fetch", views |-> v, todo |-> TECHNOLOGIES,
                   records |-> <<>>, source |-> "", stored |-> <<>>,
                   failed |-> 0, summary |-> NoSummary] : v \in Views}
    /\ gen = Idle /\ store = Idle /\ server = Idle
    /\ trends_df = <<>> /\ forecast_months = 0 /\ pc = "idle" /\ todo = <<>>
    /\ topic = "" /\ group = <<>> /\ y = <<>> /\ pred_mean = <<>>
    /\ lower_bound = <<>> /\ upper_bound = <<>> /\ results = NoMap
    /\ paths = NoMap /\ origin = NoOrigin
    /\ documents = <<>> /\ n_clusters = 0 /\ k_arg = 0 /\ cpc = "idle"
    /\ feature_names = <<>> /\ labels_ = <<>> /\ clusters = <<>>
    /\ forecast_results = <<>> /\ spc = "idle" /\ summary = NoSummary

\* fetch_wikipedia_trends, one pass of "for tech in technologies": the
\* records of a 200 response are appended; any other outcome is printed and
\* the loop goes on
FetchTech ==
    /\ pipe.pc = "fetch" /\ pipe.todo /= <<>>
    /\ \E outcome \in FetchOutcomes :
         pipe' = [pipe EXCEPT
                    !.todo = Tail(pipe.todo),
                    !.records = IF outcome = "items"
                                THEN pipe.records \o WikiRecords(Head(pipe.todo), pipe.views)
                                ELSE pipe.records,
                    !.failed = IF outcome = "items" THEN pipe.failed ELSE pipe.failed + 1]
    /\ UNCHANGED <<gen, store, server>>
    /\ UNCHANGED <<fvars, cvars, svars>>

\* return pd.DataFrame(records); then trends_df['topic'] in startup_pipeline
\* raises KeyError on a frame without rows, which "except Exception" catches
FetchReturn ==
    /\ pipe.pc = "fetch" /\ pipe.todo = <<>>
    /\ pipe' = [pipe EXCEPT !.pc = IF pipe.records = <<>> THEN "fallback" ELSE "save",
                            !.source = IF pipe.records = <<>> THEN "" ELSE "wikipedia"]
    /\ UNCHANGED <<gen, store, server>>
    /\ UNCHANGED <<fvars, cvars, svars>>

\* trends_df = generate_trend_data(months=24)
SyntheticFallback ==
    /\ pipe.pc = "fallback"
    /\ \E level \in MentionLevels :
         pipe' = [pipe EXCEPT !.pc = "save", !.source = "synthetic",
                              !.records = SyntheticRecords(TECHNOLOGIES, SyntheticMonths, level)]
    /\ UNCHANGED <<gen, store, server>>
    /\ UNCHANGED <<fvars, cvars, svars>>

\* save_trends(trends_df): to_sql(if_exists="replace")
SaveTrends ==
    /\ pipe.pc = "save"
    /\ pipe' = [pipe EXCEPT !.pc = "serving", !.stored = pipe.records]
    /\ UNCHANGED <<gen, store, server>>
    /\ UNCHANGED <<fvars, cvars, svars>>

\* GET /api/summary: load_trends(), forecast_trends, get_summary
SummaryRequest ==
    /\ pipe.pc = "serving"
    /\ pipe' = [pipe EXCEPT !.pc = "answered",
                            !.summary = GetSummary(SummaryInput(pipe.stored))]
    /\ UNCHANGED <<gen, store, server>>
    /\ UNCHANGED <<fvars, cvars, svars>>

PipelineNext ==
    \/ FetchTech
    \/ FetchReturn
    \/ SyntheticFallback
    \/ SaveTrends
    \/ SummaryRequest

-----------------------------------------------------------------------------
(* Specifications: one per function of the engine *)

SpecForecast == ForecastInit /\ [][ForecastNext]_vars

SpecCluster == ClusterInit /\ [][ClusterNext]_vars

SpecSummary == SummaryInit /\ [][SummaryNext]_vars

SpecGenerate == GenerateInit /\ [][GenerateNext]_vars

SpecStorage == StorageInit /\ [][StorageNext]_vars

SpecServer == ServerInit /\ [][ServerNext]_vars

SpecPipeline == PipelineInit /\ [][PipelineNext]_vars

-----------------------------------------------------------------------------
(* Properties of forecast_trends (checked under SpecForecast) *)

\* the topics of the input rows
InputTopics == Range(GroupKeys(trends_df))

\* every mentions value of the input is a non-negative integer
NonNegativeInput == \A i \in 1..Len(trends_df) : trends_df[i].mentions >= 0

\* C1: for every topic with a non-empty series of non-negative mentions and
\* every horizon >= 1, the returned mapping holds exactly forecast_months
\* forecast entries for the topic, and mentions, lower_bound and upper_bound
\* of every entry are >= 0, on the primary and on the fallback path.
C1_ForecastLengthNonNegative ==
    (pc = "done" /\ NonNegativeInput /\ forecast_months >= 1) =>
        \A t \in InputTopics :
            /\ t \in DOMAIN results
            /\ Len(results[t].forecast) = forecast_months
            /\ \A i \in 1..Len(results[t].forecast) :
                 /\ results[t].forecast[i].mentions >= 0
                 /\ results[t].forecast[i].lower_bound >= 0
                 /\ results[t].forecast[i].upper_bound >= 0

\* a call that returned with one topic forecast by the model and another by
\* the fallback
C1_Witness ==
    /\ pc = "done" /\ forecast_months >= 2
    /\ \E t \in DOMAIN paths : paths[t] = "primary"
    /\ \E t \in DOMAIN paths : paths[t] = "fallback"

\* the shape of a TopicForecast
HasShape(v, h) ==
    /\ DOMAIN v = {"historical", "forecast", "growth_rate"}
    /\ Len(v.historical) >= 1
    /\ \A i \in 1..Len(v.historical) :
         DOMAIN v.historical[i] = {"month", "mentions"}
    /\ Len(v.forecast) = h
    /\ \A i \in 1..Len(v.forecast) :
         DOMAIN v.forecast[i] = {"month", "mentions", "lower_bound", "upper_bound"}
    /\ v.growth_rate \in Int

\* C2: a failure of the primary model is never propagated out of
\* forecast_trends: the call never ends in an exception, a failed fit
\* leaves the fallback a non-empty series to average, and on return every
\* topic, forecast by the fallback or not, has a result of the same shape.
C2_FailureNeverPropagated ==
    /\ pc /= "raised"
    /\ pc = "except" => Len(y) >= 1
    /\ pc = "done" =>
         \A t \in InputTopics :
            /\ t \in DOMAIN results
            /\ HasShape(results[t], forecast_months)

\* a call that returned after the fit of its last topic had failed
C2_Witness ==
    /\ pc = "done"
    /\ topic \in DOMAIN paths /\ paths[topic] = "fallback"
    /\ HasShape(results[topic], forecast_months)

\* g (tenths of a percent) is (last / anchor - 1) * 100 rounded to one decimal:
\* no tenth is nearer to the exact value
NearestTenth(g, last, anchor) ==
    2 * Abs(g * anchor - 1000 * (last - anchor)) <= anchor

-----------------------------------------------------------------------------
(* Properties of cluster_documents (checked under SpecCluster) *)

RECURSIVE SumSizes(_)
SumSizes(cs) == IF cs = <<>> THEN 0 ELSE Head(cs).size + SumSizes(Tail(cs))

C4_ExactlyMinClusters ==
    (cpc \in {"done", "raised"} /\ Len(documents) >= 1 /\ k_arg >= 1) =>
        /\ cpc = "done"
        /\ Len(clusters) = Min(k_arg, Len(documents))
        /\ \A i \in 1..Len(clusters) : clusters[i].cluster_id = i - 1

\* C5: cluster_documents called with an empty document list returns the
\* empty list for any k, without raising an error.
C5_EmptyInput ==
    (documents = <<>> /\ cpc \notin {"idle", "start"}) =>
        (cpc = "done" /\ clusters = <<>>)

\* the call with no documents and n_clusters = 0 has returned
C5_Witness == cpc = "done" /\ documents = <<>> /\ k_arg = 0 /\ clusters = <<>>

-----------------------------------------------------------------------------
(* Properties of get_summary (checked under SpecSummary) *)

NTopics == Len(forecast_results)

\* seq is sorted by growth_rate, each entry's >= the next entry's
NonIncreasing(seq) ==
    \A i \in 1..(Len(seq) - 1) : seq[i].growth_rate >= seq[i + 1].growth_rate

\* seq is sorted by growth_rate, each entry's <= the next entry's
NonDecreasing(seq) ==
    \A i \in 1..(Len(seq) - 1) : seq[i].growth_rate <= seq[i + 1].growth_rate

\* C7: for every forecast mapping with N >= 0 topics, get_summary returns
\* total_topics = N and top_rising and top_declining of length min(3, N).
C7_SummaryLengths ==
    spc = "done" =>
        /\ summary.total_topics = NTopics
        /\ Len(summary.top_rising) = Min(3, NTopics)
        /\ Len(summary.top_declining) = Min(3, NTopics)

\* the summary of a mapping of two topics has been returned
C7_Witness == spc = "done" /\ NTopics = 2 /\ Len(summary.top_rising) = 2

\* C8 as stated: top_rising is sorted by growth_rate descending and
\* top_declining is sorted by growth_rate ascending.
C8_DecliningAscending ==
    spc = "done" =>
        /\ NonIncreasing(summary.top_rising)
        /\ NonDecreasing(summary.top_declining)

\* C8 as amended: top_rising and top_declining are both sorted by
\* growth_rate descending (each entry's growth_rate >= the next entry's).
C8_BothDescending ==
    spc = "done" =>
        /\ NonIncreasing(summary.top_rising)
        /\ NonIncreasing(summary.top_declining)

\* a summary whose top_declining holds three different growth rates
C8_Witness ==
    /\ spc = "done" /\ Len(summary.top_declining) = 3
    /\ summary.top_declining[1].growth_rate > summary.top_declining[2].growth_rate
    /\ summary.top_declining[2].growth_rate > summary.top_declining[3].growth_rate

\* the growth rate of every topic of the input mapping
AllRates == {forecast_results[i].value.growth_rate : i \in 1..NTopics}

\* C9: get_summary orders all topics by growth_rate descending; top_rising
\* is the first min(3,N) topics of that order and top_declining the last
\* min(3,N) of the same order: both are slices of one descending order of
\* the topics (entries at the same position of the order are the same entry,
\* entries at different positions are different topics), no topic outside
\* top_rising grows faster than one inside, none outside top_declining
\* slower than one inside, top_rising[0] has the maximum and the last entry
\* of top_declining the minimum growth rate.
C9_SlicesOfOneOrder ==
    (spc = "done" /\ NTopics >= 1) =>
        LET tr == summary.top_rising
            td == summary.top_declining
            off == NTopics - Len(td)
            named(seq) == {seq[i].topic : i \in 1..Len(seq)}
        IN /\ Len(tr) >= 1 /\ Len(td) >= 1
           /\ \A i \in 1..Len(tr) :
                \E k \in 1..NTopics :
                   /\ forecast_results[k].topic = tr[i].topic
                   /\ forecast_results[k].value.growth_rate = tr[i].growth_rate
           /\ \A j \in 1..Len(td) :
                \E k \in 1..NTopics :
                   /\ forecast_results[k].topic = td[j].topic
                   /\ forecast_results[k].value.growth_rate = td[j].growth_rate
           /\ \A i, j \in 1..Len(tr) : i /= j => tr[i].topic /= tr[j].topic
           /\ \A i, j \in 1..Len(td) : i /= j => td[i].topic /= td[j].topic
           /\ \A i \in 1..Len(tr), j \in 1..Len(td) :
                (i = off + j) <=> (tr[i].topic = td[j].topic)
           /\ NonIncreasing(tr) /\ NonIncreasing(td)
           /\ \A k \in 1..NTopics :
                /\ forecast_results[k].topic \notin named(tr) =>
                     forecast_results[k].value.growth_rate
                        <= tr[Len(tr)].growth_rate
                /\ forecast_results[k].topic \notin named(td) =>
                     forecast_results[k].value.growth_rate >= td[1].growth_rate
           /\ \A r \in AllRates :
                tr[1].growth_rate >= r /\ td[Len(td)].growth_rate <= r

\* a summary of five topics: the two lists share exactly the middle topic
C9_Witness ==
    /\ spc = "done" /\ NTopics = 5
    /\ summary.top_rising[3] = summary.top_declining[1]
    /\ summary.top_rising[1].growth_rate > summary.top_declining[3].growth_rate

\* all historical mentions of all topics, as one list
RECURSIVE AllHistorical(_)
AllHistorical(items) ==
    IF items = <<>> THEN <<>>
    ELSE [i \in 1..Len(Head(items).value.historical) |->
             Head(items).value.historical[i].mentions]
         \o AllHistorical(Tail(items))

\* C10: total_mentions equals the sum of the mentions of all historical
\* entries over all topics; forecast entries contribute nothing to it.
C10_TotalMentions ==
    spc = "done" => summary.total_mentions = SumSeq(AllHistorical(forecast_results))

\* a summary over several topics with historical and forecast mentions > 0
C10_Witness ==
    /\ spc = "done" /\ NTopics >= 2 /\ summary.total_mentions > 0
    /\ \A k \in 1..NTopics :
         \E i \in 1..Len(forecast_results[k].value.forecast) :
            forecast_results[k].value.forecast[i].mentions > 0

-----------------------------------------------------------------------------
(* C12: forecast months *)

\* the calendar month after ym: month 12 rolls over to month 01 of the next year
NextMonth(ym) == IF ym[2] = 12 THEN <<ym[1] + 1, 1>> ELSE <<ym[1], ym[2] + 1>>

\* the months of the input rows of topic t
ObservedMonths(t) == {trends_df[i].month : i \in {j \in 1..Len(trends_df) : trends_df[j].topic = t}}

\* the greatest observed month of topic t
LastObserved(t) ==
    CHOOSE m \in ObservedMonths(t) :
        \A o \in ObservedMonths(t) : o = m \/ MonthLess(o, m)

\* C12: for every topic of the result, the forecast has max(horizon, 0)
\* entries; the month of the first is the calendar month after the topic's
\* greatest observed month and the month of each later entry is the calendar
\* month after the month of the entry before it (December is followed by
\* January of the next year), so no month is skipped or repeated
C12_ConsecutiveMonths ==
    pc = "done" =>
        \A t \in DOMAIN results :
            LET f == results[t].forecast IN
            /\ Len(f) = Max(forecast_months, 0)
            /\ Len(f) >= 1 => f[1].month = NextMonth(LastObserved(t))
            /\ \A i \in 1..(Len(f) - 1) : f[i + 1].month = NextMonth(f[i].month)
            /\ \A i \in 1..Len(f) : f[i].month[2] \in 1..12

\* a returned forecast of two months or more that starts in January: the last
\* observed month is a December, given by rows that were not in month order
C12_Witness ==
    /\ pc = "done"
    /\ \E t \in DOMAIN results :
         /\ Len(results[t].forecast) >= 2
         /\ results[t].forecast[1].month[2] = 1
         /\ LastObserved(t)[2] = 12
         /\ trends_df[Len(trends_df)].month /= LastObserved(t)

-----------------------------------------------------------------------------
(* C13: the historical echo *)

\* how many entries of seq equal e
CountIn(seq, e) == Cardinality({i \in 1..Len(seq) : seq[i] = e})

\* the (month, mentions) pairs of the input rows of topic t, in input order
ObservedPairs(t) ==
    LET rows == SelectSeq(trends_df, LAMBDA r : r.topic = t)
    IN  [i \in 1..Len(rows) |-> [month |-> rows[i].month, mentions |-> rows[i].mentions]]

HistoricalEcho ==
    pc = "done" =>
        \A t \in DOMAIN results :
            LET hist == results[t].historical
                obs == ObservedPairs(t)
            IN  /\ Len(hist) = Len(obs)
                /\ \A i \in 1..Len(obs) : CountIn(hist, obs[i]) = CountIn(obs, obs[i])
                /\ \A i \in 1..Len(hist) :
                      /\ DOMAIN hist[i] = {"month", "mentions"}
                      /\ hist[i].mentions \in Int
                /\ \A i \in 1..Len(hist) : \A j \in (i + 1)..Len(hist) :
                      ~MonthLess(hist[j].month, hist[i].month)

\* C13: in the returned result, the historical list of every topic has as many
\* entries as the topic has input rows and holds each row's (month, mentions)
\* pair as often as the input does; every entry has the two fields month and
\* mentions only, mentions an integer; no entry has an earlier month than an
\* entry before it; and no step of forecast_trends changes the input rows
C13_HistoricalEcho == []HistoricalEcho /\ [][trends_df' = trends_df]_vars

\* a result returned for a topic whose rows were given with a later month
\* before an earlier one
C13_Witness ==
    /\ pc = "done"
    /\ \E t \in DOMAIN results :
         LET obs == ObservedPairs(t)
         IN  /\ Len(obs) >= 2
             /\ MonthLess(obs[2].month, obs[1].month)
             /\ results[t].historical /= obs

-----------------------------------------------------------------------------
(* C14: the fallback values *)

\* the observed series of topic t as the result echoes it
SeriesOf(t) == [i \in 1..Len(results[t].historical) |-> results[t].historical[i].mentions]

\* the last min(3, len) observations
MeanTail(s) == SubSeq(s, Max(Len(s) - 2, 1), Len(s))

\* the last 6 observations if there are 6 or more, else all of them
SpreadTail(s) == IF Len(s) >= 6 THEN SubSeq(s, Len(s) - 5, Len(s)) ELSE s

\* k * k * variance of w, k = Len(w) (population variance, as np.std has it)
ScaledVariance(w) ==
    Len(w) * SumSeq([i \in 1..Len(w) |-> w[i] * w[i]]) - SumSeq(w) * SumSeq(w)

\* a <= r * sqrt(v) and a < r * sqrt(v), for integers a, r >= 0, v >= 0
LeqRoot(a, r, v) == a <= 0 \/ a * a <= r * r * v
LessRoot(a, r, v) == a < 0 \/ a * a < r * r * v

\* e is the forecast entry the claim gives for series s: with n and S the
\* length and the sum of the mean tail, k the length of the spread tail and
\* half-width hw = sqrt(v) / k = n * sqrt(v) / (n * k),
\*   mentions    = trunc(S / n)
\*   upper_bound = trunc(S / n + hw)
\*   lower_bound = trunc(max(S / n - hw, 0))
IsFallbackEntry(e, s) ==
    LET n == Len(MeanTail(s))
        S == SumSeq(MeanTail(s))
        k == Len(SpreadTail(s))
        v == ScaledVariance(SpreadTail(s))
    IN  /\ e.mentions * n <= S /\ S < (e.mentions + 1) * n
        \* upper_bound <= S/n + hw < upper_bound + 1
        /\ LeqRoot((e.upper_bound * n - S) * k, n, v)
        /\ ~LeqRoot(((e.upper_bound + 1) * n - S) * k, n, v)
        \* 0 <= lower_bound, S/n - hw < lower_bound + 1, and
        \* lower_bound <= S/n - hw unless lower_bound = 0
        /\ e.lower_bound >= 0
        /\ LessRoot((S - (e.lower_bound + 1) * n) * k, n, v)
        /\ e.lower_bound = 0 \/ ~LessRoot((S - e.lower_bound * n) * k, n, v)

\* C14: in the returned result, every forecast entry of a topic that took the
\* fallback path has mentions = the truncated mean of the last min(3, len)
\* observations, upper_bound = the truncated mean + half-width and
\* lower_bound = the truncated max(mean - half-width, 0), the half-width being
\* the standard deviation of the last 6 observations if there are 6 or more
\* and of all observations otherwise; for a single observation v all three
\* are v and growth_rate is 0.0
C14_FallbackValues ==
    pc = "done" =>
        \A t \in DOMAIN results :
            paths[t] = "fallback" =>
                LET s == SeriesOf(t)
                    f == results[t].forecast
                IN  /\ \A i \in 1..Len(f) : IsFallbackEntry(f[i], s)
                    /\ Len(s) = 1 =>
                          /\ \A i \in 1..Len(f) :
                                /\ f[i].mentions = s[1]
                                /\ f[i].lower_bound = s[1]
                                /\ f[i].upper_bound = s[1]
                          /\ results[t].growth_rate = 0

\* a returned fallback forecast for a series of more than 6 observations, the
\* half-width being positive and not that of the whole series
C14_Witness ==
    /\ pc = "done"
    /\ \E t \in DOMAIN results :
         /\ paths[t] = "fallback"
         /\ Len(SeriesOf(t)) > 6
         /\ Len(results[t].forecast) >= 2
         /\ results[t].forecast[1].upper_bound > results[t].forecast[1].mentions
         /\ ~IsFallbackEntry(results[t].forecast[1],
                             <<0, 0, 0, 0, 0, 0>> \o SubSeq(SeriesOf(t), Len(SeriesOf(t)) - 2, Len(SeriesOf(t))))

-----------------------------------------------------------------------------
(* C17: one path per topic *)

\* C17: whenever a topic's result is about to be built, pred_mean, lower_bound
\* and upper_bound were all three last assigned while handling this very
\* topic and by the same path (all by the try block or all by the except
\* block), the path recorded for the topic; in particular a pred_mean that
\* the try block assigned before conf_int raised has been overwritten
C17_SamePath ==
    pc = "emit" =>
        /\ origin.pred_mean = [path |-> paths[topic], topic |-> topic]
        /\ origin.lower_bound = origin.pred_mean
        /\ origin.upper_bound = origin.pred_mean
        /\ paths[topic] = "fallback" =>
              \A i \in 1..forecast_months : pred_mean[i] = FallbackMean(y)

\* the result of the second topic is about to be built from the except block,
\* which replaced the pred_mean its try block had assigned before conf_int
\* raised, the first topic having taken the primary path
C17_Witness ==
    /\ pc = "emit"
    /\ origin.overwrote
    /\ paths[topic] = "fallback"
    /\ \E t \in DOMAIN paths : t /= topic /\ paths[t] = "primary"

-----------------------------------------------------------------------------
(* C20: the interval holds the point forecast *)

\* C20: in every forecast entry of the returned result, of a topic on either
\* path, lower_bound <= mentions <= upper_bound
C20_BoundsOrdered ==
    pc = "done" =>
        \A t \in DOMAIN results :
            \A i \in 1..Len(results[t].forecast) :
                LET e == results[t].forecast[i]
                IN  e.lower_bound <= e.mentions /\ e.mentions <= e.upper_bound

\* a returned result with one topic on each path: the primary one with a
\* lower bound clamped to 0 below a positive forecast, the fallback one with
\* a positive half-width
C20_Witness ==
    /\ pc = "done"
    /\ \E t \in DOMAIN results : \E u \in DOMAIN results :
         /\ paths[t] = "primary" /\ paths[u] = "fallback"
         /\ Len(results[t].forecast) >= 1
         /\ results[t].forecast[1].lower_bound = 0
         /\ results[t].forecast[1].mentions > 0
         /\ results[u].forecast[1].mentions < results[u].forecast[1].upper_bound

-----------------------------------------------------------------------------
(* C16: generated months *)

\* the rows generate_trend_data returned for tech
GeneratedOf(tech) == SelectSeq(gen.records, LAMBDA r : r.topic = tech)

\* C16: in the returned rows every technology has exactly `months` rows and
\* the month of each row is later than the month of the row before it, so the
\* months of a technology are pairwise distinct
C16_MonthsUnique ==
    gen.pc = "done" =>
        \A k \in 1..Len(TECHNOLOGIES) :
            LET rows == GeneratedOf(TECHNOLOGIES[k])
            IN  /\ Len(rows) = gen.months
                /\ \A i \in 1..(Len(rows) - 1) :
                      MonthLess(rows[i].month, rows[i + 1].month)

-----------------------------------------------------------------------------
(* C19: the cluster table holds the last saved list *)

\* C19: what load_clusters returned after the latest pipeline run is the list
\* that run passed to save_clusters: the same clusters in the same order with
\* the same cluster_id, label, keywords and size, and nothing of earlier runs
C19_LoadReturnsLastSave ==
    (store.pc = "serving" /\ store.loaded_run = store.runs) =>
        /\ store.loaded = store.saved
        /\ Cardinality(store.table) = Len(store.saved)

\* load_clusters has returned two clusters after a second run, earlier rows
\* having been inserted and deleted before
C19_Witness ==
    /\ store.pc = "serving"
    /\ store.loaded_run = store.runs
    /\ store.runs >= 2
    /\ Len(store.loaded) = 2
    /\ store.seq > Len(store.loaded)
    /\ Len(store.loaded[2].keywords) = 2

-----------------------------------------------------------------------------
(* C18: the forecast cache *)

\* C18: forecast_trends has been called at most once, a cache that was set
\* has never been assigned again, and all responses were answered from one
\* mapping
C18_ComputedOnce ==
    /\ server.calls <= 1
    /\ ~server.replaced
    /\ \A r1 \in server.responses : \A r2 \in server.responses :
          r1.forecasts = r2.forecasts

-----------------------------------------------------------------------------
(* C15: the summary after startup *)

\* C15: the summary answered after the startup pipeline has total_topics = 10,
\* total_mentions > 0 and three entries in each of top_rising and
\* top_declining, whichever requests failed
C15_SummaryAfterStartup ==
    pipe.pc = "answered" =>
        /\ pipe.summary.total_topics = Len(TECHNOLOGIES)
        /\ pipe.summary.total_mentions > 0
        /\ Len(pipe.summary.top_rising) = 3
        /\ Len(pipe.summary.top_declining) = 3

\* the part that holds: the claim's values when no request failed or all did
SummaryOfAllOrNone ==
    (pipe.pc = "answered" /\ pipe.failed \in {0, Len(TECHNOLOGIES)}) =>
        /\ pipe.summary.total_topics = Len(TECHNOLOGIES)
        /\ pipe.summary.total_mentions > 0
        /\ Len(pipe.summary.top_rising) = 3
        /\ Len(pipe.summary.top_declining) = 3

-----------------------------------------------------------------------------
(* C21: overlap of top_rising and top_declining *)

\* the topics a list of the summary names
TopicsNamed(seq) == {seq[i].topic : i \in 1..Len(seq)}

\* C21: in the summary of a mapping of N topics, top_rising and top_declining
\* name no common topic when N >= 6 and at least one common topic when
\* 1 <= N <= 5; when N <= 3 the two lists are the same list
C21_Overlap ==
    spc = "done" =>
        LET shared == TopicsNamed(summary.top_rising)
                          \cap TopicsNamed(summary.top_declining)
        IN  /\ NTopics >= 6 => shared = {}
            /\ (1 <= NTopics /\ NTopics <= 5) => shared /= {}
            /\ NTopics <= 3 => summary.top_rising = summary.top_declining

\* a summary of six topics whose third and fourth growth rates are equal: the
\* lists meet in growth rate at their border and still name different topics
C21_Witness ==
    /\ spc = "done" /\ NTopics = 6
    /\ Len(summary.top_rising) = 3 /\ Len(summary.top_declining) = 3
    /\ summary.top_rising[3].growth_rate = summary.top_declining[1].growth_rate
    /\ summary.top_rising[3].topic /= summary.top_declining[1].topic
====
